---- MODULE Spec2Model ----
(***************************************************************************)
(* Model of the chat server of gRPC_Chat_Project.                          *)
(*                                                                         *)
(*   - ChatServer.GetRoomID and the rooms table (room identifier           *)
(*     derivation, idempotent room creation);                              *)
(*   - ChatServer.JoinChat / broadcastMessage of the repository-backed     *)
(*     server (history replay, registry, save and broadcast);              *)
(*   - ChatServer.JoinChat / broadcastMessage of the in-memory server      *)
(*     of cmd/usersvc/main.go, whose broadcast evicts failed recipients.   *)
(*                                                                         *)
(* Strings that the code slices or compares (unique identifiers, room      *)
(* identifiers) are sequences of character codes.                          *)
(***************************************************************************)
EXTENDS Integers, Sequences, FiniteSets, TLC

VARIABLES
    users,      \* users table: username -> row (external account subsystem)
    rooms,      \* rooms table: set of rows
    resp,       \* response of the last GetRoomID call
    messages,   \* messages table: rows in ascending sent_at order
    clients,    \* ChatServer.clients: room identifier -> list of streams
    pc,         \* position of each stream's JoinChat handler
    conn,       \* state of each stream's transport, as its handler and the
                \* senders to it have observed it
    local,      \* locals of each JoinChat handler
    inbox,      \* messages the client of each live stream has received, in order
    unregs,     \* number of runs of each handler's deferred cleanup
    sent,       \* number of frames clients have sent after their handshakes
    mu          \* ChatServer.mu: the handlers holding the write lock and the
                \* handlers holding the read lock

gatewayVars == <<users, rooms, resp>>

sessionVars == <<messages, clients, pc, conn, local, inbox, unregs, sent, mu>>

vars == <<users, rooms, resp, messages, clients, pc, conn, local, inbox, unregs, sent, mu>>

----------------------------------------------------------------------------
(* Bounds of the model                                                      *)

\* largest account-creation timestamp drawn for a user row
MaxCreated == 2

\* number of frames the clients send after their handshake frames, in all
MaxFrames == 1

\* the limit JoinChat passes to GetMessagesByRoomID, scaled down from 50
ReplayLimit == 2

----------------------------------------------------------------------------
(* Input domains                                                            *)

\* usernames (users.username); the empty string is never a username
Names == {"alice", "bob", "carol"}

\* identities a caller may pass: any username, or the empty string
CallerIDs == Names \cup {""}

\* unique identifiers (users.id) as character sequences: two share their
\* first three characters, one is shorter than three characters
UUIDs == {<<1, 2, 3, 4>>, <<1, 2, 3, 5>>, <<2, 3, 4, 5>>, <<3, 4>>}

Times == 1..MaxCreated

NoUser == [known |-> FALSE, id |-> <<>>, created |-> 0]

UserRows == [known : {TRUE}, id : UUIDs, created : Times]

\* users tables: username -> row or no row; users.id is a key
UserTables ==
    {t \in [Names -> UserRows \cup {NoUser}] :
        \A a, b \in Names : (a # b /\ t[a].known /\ t[b].known) => t[a].id # t[b].id}

\* no GetRoomID call has returned yet
NoResp == [my |-> "", other |-> "", code |-> "none", room_id |-> <<>>, storageErr |-> FALSE]

----------------------------------------------------------------------------
(* Strings                                                                  *)

\* Go string comparison s < t (bytewise lexicographic)
RECURSIVE StrLess(_, _)
StrLess(s, t) ==
    IF t = <<>> THEN FALSE
    ELSE IF s = <<>> THEN TRUE
    ELSE IF Head(s) < Head(t) THEN TRUE
    ELSE IF Head(s) > Head(t) THEN FALSE
    ELSE StrLess(Tail(s), Tail(t))

\* s[:n], for Len(s) >= n
Prefix(s, n) == SubSeq(s, 1, n)

----------------------------------------------------------------------------
(* Persistence gateway: users and rooms                                     *)

\* GetUserInfo that reports a missing row as an empty identity, not an error
GetUserInfoNoRowsOk(username, dbOk) ==
    IF dbOk /\ username \in Names /\ users[username].known
    THEN [err |-> FALSE, id |-> users[username].id, created |-> users[username].created]
    ELSE [err |-> ~dbOk, id |-> <<>>, created |-> 0]

\* GetUserInfo: (id, created_at) of the row of username, an error when the
\* query fails or finds no row
GetUserInfo(username, dbOk) ==
    IF dbOk /\ username \in Names /\ users[username].known
    THEN [err |-> FALSE, id |-> users[username].id, created |-> users[username].created]
    ELSE [err |-> TRUE, id |-> <<>>, created |-> 0]

\* INSERT INTO rooms ... ON CONFLICT (room_id) DO NOTHING, on a table with
\* PRIMARY KEY room_id and UNIQUE (user1_id, user2_id)
EnsureRoomExistsNoArbiter(rs, roomID, user1ID, user2ID, dbOk) ==
    IF ~dbOk THEN [err |-> TRUE, rooms |-> rs]
    ELSE [err |-> FALSE,
          rooms |-> rs \cup {[room_id |-> roomID, user1_id |-> user1ID, user2_id |-> user2ID]}]

EnsureRoomExists(rs, roomID, user1ID, user2ID, dbOk) ==
    IF ~dbOk THEN [err |-> TRUE, rooms |-> rs]
    ELSE IF \E r \in rs : r.room_id = roomID THEN [err |-> FALSE, rooms |-> rs]
    ELSE IF \E r \in rs : r.user1_id = user1ID /\ r.user2_id = user2ID
         THEN [err |-> TRUE, rooms |-> rs]
    ELSE [err |-> FALSE,
          rooms |-> rs \cup {[room_id |-> roomID, user1_id |-> user1ID, user2_id |-> user2ID]}]

----------------------------------------------------------------------------
(* ChatServer.GetRoomID                                                     *)

\* the ordering test of GetRoomID: TRUE when (uuid1, created1) goes first
FirstIsMineNoTie(uuid1, created1, uuid2, created2) ==
    created1 <= created2

FirstIsMine(uuid1, created1, uuid2, created2) ==
    created1 < created2 \/ (created1 = created2 /\ StrLess(uuid1, uuid2))

\* firstUUID[:3] + secondUUID[:3]
JoinPrefixesSwapped(firstUUID, secondUUID) ==
    Prefix(secondUUID, 3) \o Prefix(firstUUID, 3)

JoinPrefixes(firstUUID, secondUUID) ==
    Prefix(firstUUID, 3) \o Prefix(secondUUID, 3)

\* a length test that reports a short identifier as NotFound
LengthStatusNotFound(firstUUID, secondUUID) ==
    IF Len(firstUUID) < 3 \/ Len(secondUUID) < 3 THEN "NotFound" ELSE "OK"

\* the test of the identifiers before their prefixes are cut: Internal when
\* either is shorter than 3 characters
LengthStatus(firstUUID, secondUUID) ==
    IF Len(firstUUID) < 3 \/ Len(secondUUID) < 3 THEN "Internal" ELSE "OK"

\* which gateway call of one GetRoomID fails with a storage error, if any
\* (the handler returns at the first failing call)
Faults == {"none", "info1", "info2", "ensure"}

\* the response of GetRoomID and the rooms table it leaves; storageErr notes
\* that the call returned because a gateway call failed with a storage error
GetRoomIDCall(rs, myID, otherID, fault) ==
    LET fail(c, se) ==
            [rooms |-> rs,
             resp |-> [my |-> myID, other |-> otherID, code |-> c, room_id |-> <<>>,
                       storageErr |-> se]]
    IN
    IF myID = "" \/ otherID = "" THEN fail("InvalidArgument", FALSE)
    ELSE
    LET i1 == GetUserInfo(myID, fault # "info1") IN
    IF i1.err THEN fail("NotFound", fault = "info1")
    ELSE
    LET i2 == GetUserInfo(otherID, fault # "info2") IN
    IF i2.err THEN fail("NotFound", fault = "info2")
    ELSE
    LET mine == FirstIsMine(i1.id, i1.created, i2.id, i2.created)
        firstUUID == IF mine THEN i1.id ELSE i2.id
        secondUUID == IF mine THEN i2.id ELSE i1.id
    IN
    IF LengthStatus(firstUUID, secondUUID) # "OK"
    THEN fail(LengthStatus(firstUUID, secondUUID), FALSE)
    ELSE
    LET roomID == JoinPrefixes(firstUUID, secondUUID)
        e == EnsureRoomExists(rs, roomID, myID, otherID, fault # "ensure")
    IN
    IF e.err THEN fail("Internal", fault = "ensure")
    ELSE [rooms |-> e.rooms,
          resp |-> [my |-> myID, other |-> otherID, code |-> "OK", room_id |-> roomID,
                    storageErr |-> FALSE]]

\* one GetRoomID call, of a caller asking for the room it shares with
\* another identity
GetRoomID ==
    \E myID \in CallerIDs, otherID \in CallerIDs, fault \in Faults :
        /\ myID # otherID
        /\ LET r == GetRoomIDCall(rooms, myID, otherID, fault) IN
            /\ rooms' = r.rooms
            /\ resp' = r.resp
            /\ UNCHANGED <<users, sessionVars>>

----------------------------------------------------------------------------
(* Streams and wire messages                                                *)

\* the streams (one JoinChat call each)
Sessions == {1, 2}

\* room identifiers clients name: the room of alice and bob, and a room
\* that has no row
RoomAB == <<1, 2, 3, 2, 3, 4>>

RoomNone == <<9, 9, 9, 9, 9, 9>>

RoomIDs == {RoomAB, RoomNone}

\* the empty string as a room identifier
NoRoom == <<>>

\* the body of the k-th frame of stream s when it is not empty; 0 is the
\* empty body
Body(s, k) == 10 * s + k

EmptyBody == 0

NoMsg == [Roomid |-> NoRoom, Username |-> "", Message |-> EmptyBody]

\* locals of a handler: roomID, userName, the frame in hand (initialMsg or
\* msg), the roomID argument of broadcastMessage, the history records and
\* snapshot clients still to send to, the failedClients of the in-memory
\* server's broadcast, the number of frames received, the status returned,
\* and whether the deferred cleanup was installed
NoLocal == [roomID |-> NoRoom, userName |-> "", msg |-> NoMsg, bRoom |-> NoRoom,
            history |-> <<>>, snapshot |-> <<>>, failedClients |-> <<>>, recvd |-> 0,
            ret |-> "none", registered |-> FALSE]

\* sync.RWMutex with no holder
Unlocked == [writers |-> {}, readers |-> {}]

InitSessions ==
    /\ messages = <<>>
    /\ mu = Unlocked
    /\ clients = <<>>
    /\ pc = [s \in Sessions |-> "handshake"]
    /\ conn = [s \in Sessions |-> "open"]
    /\ local = [s \in Sessions |-> NoLocal]
    /\ inbox = [s \in Sessions |-> <<>>]
    /\ unregs = [s \in Sessions |-> 0]
    /\ sent = 0

----------------------------------------------------------------------------
(* Persistence gateway: messages                                            *)

\* UserExists that reports every username as existing
UserExistsAlways(username, dbOk) == [exists |-> TRUE, err |-> ~dbOk]

\* UserExists: (exists, err); no row is (false, nil), a failed query
\* (false, err)
UserExists(username, dbOk) ==
    IF ~dbOk THEN [exists |-> FALSE, err |-> TRUE]
    ELSE [exists |-> username \in Names /\ users[username].known, err |-> FALSE]

\* SaveMessage that stores the new row before the rows already stored
SaveMessageFirst(ms, roomID, senderID, username, messageContent, dbOk) ==
    IF dbOk /\ \E r \in rooms : r.room_id = roomID
    THEN [err |-> FALSE,
          messages |-> <<[room_id |-> roomID, sender_id |-> senderID,
                          username |-> username,
                          message_content |-> messageContent]>> \o ms]
    ELSE [err |-> TRUE, messages |-> ms]

\* SaveMessage: INSERT INTO messages; room_id REFERENCES rooms(room_id)
SaveMessage(ms, roomID, senderID, username, messageContent, dbOk) ==
    IF dbOk /\ \E r \in rooms : r.room_id = roomID
    THEN [err |-> FALSE,
          messages |-> Append(ms, [room_id |-> roomID, sender_id |-> senderID,
                                   username |-> username,
                                   message_content |-> messageContent])]
    ELSE [err |-> TRUE, messages |-> ms]

\* the rows of ms with room_id = roomID, in order
RECURSIVE RoomRows(_, _)
RoomRows(ms, roomID) ==
    IF ms = <<>> THEN <<>>
    ELSE IF Head(ms).room_id = roomID
         THEN <<Head(ms)>> \o RoomRows(Tail(ms), roomID)
         ELSE RoomRows(Tail(ms), roomID)

\* the reverse of a sequence
Reverse(q) == [i \in 1..Len(q) |-> q[Len(q) + 1 - i]]

\* GetMessagesByRoomID with ORDER BY sent_at DESC
GetMessagesByRoomIDDesc(ms, roomID, limit, dbOk) ==
    IF ~dbOk THEN [err |-> TRUE, records |-> <<>>]
    ELSE LET rows == Reverse(RoomRows(ms, roomID)) IN
         [err |-> FALSE,
          records |-> IF Len(rows) <= limit THEN rows ELSE SubSeq(rows, 1, limit)]

\* GetMessagesByRoomID: ... WHERE room_id = $1 ORDER BY sent_at ASC LIMIT $2
GetMessagesByRoomID(ms, roomID, limit, dbOk) ==
    IF ~dbOk THEN [err |-> TRUE, records |-> <<>>]
    ELSE LET rows == RoomRows(ms, roomID) IN
         [err |-> FALSE,
          records |-> IF Len(rows) <= limit THEN rows ELSE SubSeq(rows, 1, limit)]

----------------------------------------------------------------------------
(* Transport                                                                *)

\* outcomes of stream.Send on the stream of c: it can succeed while the
\* transport is open; it fails when the client has disconnected, the network
\* has failed or the handler of c has returned, and the transport is down
\* from then on
SendOutcomes(c) == IF conn[c] = "open" THEN {TRUE, FALSE} ELSE {FALSE}

\* the transport of c after a Send with outcome ok
AfterSend(c, ok) == IF ok THEN conn ELSE [conn EXCEPT ![c] = "down"]

\* the account each client logs in with: stream 1 is alice's, stream 2 bob's
ClientName(s) == IF s = 1 THEN "alice" ELSE "bob"

\* handshake frames a client may send: any room identifier or none; its
\* own username, a username without an account, or none; any body
HandshakeFrames(s) ==
    [Roomid : RoomIDs \cup {NoRoom}, Username : {ClientName(s), "carol", ""},
     Message : {EmptyBody, Body(s, 0)}]

\* later frames of the client of cmd/chatclient: the room identifier and
\* username of its handshake, any body
LaterFrames(s, k, roomID, userName) ==
    [Roomid : {roomID}, Username : {userName}, Message : {EmptyBody, Body(s, k)}]

----------------------------------------------------------------------------
(* ChatServer.clients                                                       *)

\* a lookup that ignores the room: the list of some room that has a key
ClientsOfAnyRoom(cl, roomID) ==
    IF DOMAIN cl = {} THEN <<>> ELSE cl[CHOOSE r \in DOMAIN cl : TRUE]

\* s.clients[roomID], nil for a missing key
ClientsOf(cl, roomID) == IF roomID \in DOMAIN cl THEN cl[roomID] ELSE <<>>

\* s.clients[roomID] = list
PutClients(cl, roomID, list) ==
    [r \in DOMAIN cl \cup {roomID} |-> IF r = roomID THEN list ELSE cl[r]]

\* delete(s.clients, roomID)
DeleteClients(cl, roomID) == [r \in DOMAIN cl \ {roomID} |-> cl[r]]

\* a registration that appends the stream twice
RegisteredTwice(cl, roomID, stream) ==
    PutClients(cl, roomID, ClientsOf(cl, roomID) \o <<stream, stream>>)

\* a registration that leaves the registry as it is
NotRegistered(cl, roomID, stream) == cl

\* s.clients[roomID] = <stream>: a registration that drops the earlier clients
RegisteredAlone(cl, roomID, stream) == PutClients(cl, roomID, <<stream>>)

\* s.clients[roomID] = append(s.clients[roomID], stream)
Registered(cl, roomID, stream) ==
    PutClients(cl, roomID, Append(ClientsOf(cl, roomID), stream))

\* a filter that drops every client
WithoutAnyStream(list, stream) == <<>>

\* a filter that only drops stream when it is the first client
WithoutStreamIfFirst(list, stream) ==
    IF list # <<>> /\ Head(list) = stream THEN Tail(list) ELSE list

\* the filter loop of the deferred cleanup: every client that is not stream
RECURSIVE WithoutStream(_, _)
WithoutStream(list, stream) ==
    IF list = <<>> THEN <<>>
    ELSE IF Head(list) # stream
         THEN <<Head(list)>> \o WithoutStream(Tail(list), stream)
         ELSE WithoutStream(Tail(list), stream)

\* the deferred cleanup of JoinChat
Unregistered(cl, roomID, stream) ==
    LET updatedClients == WithoutStream(ClientsOf(cl, roomID), stream) IN
    IF Len(updatedClients) = 0
    THEN DeleteClients(cl, roomID)
    ELSE PutClients(cl, roomID, updatedClients)

InRegistry(cl, stream) ==
    \E r \in DOMAIN cl : \E i \in 1..Len(cl[r]) : cl[r][i] = stream

----------------------------------------------------------------------------
(* ChatServer.JoinChat of the repository-backed server                      *)

\* the locals of a handler that has returned with code
Returned(code, registered) == [NoLocal EXCEPT !.ret = code, !.registered = registered]

\* a validation that tests the room identifier only
InvalidFrameRoomOnly(f) == f.Roomid = NoRoom

\* initialMsg.Roomid == "" or initialMsg.Username == ""
InvalidFrame(f) == f.Roomid = NoRoom \/ f.Username = ""

\* the handler of s after its first Recv has returned frame f: validation
\* of the frame, then UserExists
HandshakeOn(s, f, dbOk) ==
    /\ pc[s] = "handshake"
    /\ conn[s] = "open"
    /\ IF InvalidFrame(f)
       THEN /\ pc' = [pc EXCEPT ![s] = "closed"]
            /\ local' = [local EXCEPT ![s] = Returned("InvalidArgument", FALSE)]
       ELSE IF ~UserExists(f.Username, dbOk).exists
       THEN /\ pc' = [pc EXCEPT ![s] = "closed"]
            /\ local' = [local EXCEPT ![s] = Returned("Unauthenticated", FALSE)]
       ELSE /\ pc' = [pc EXCEPT ![s] = "loadHistory"]
            /\ local' = [local EXCEPT ![s].roomID = f.Roomid,
                                      ![s].userName = f.Username,
                                      ![s].msg = f,
                                      ![s].recvd = 1]
    /\ conn' = IF pc'[s] = "closed" THEN [conn EXCEPT ![s] = "down"] ELSE conn
    /\ UNCHANGED <<gatewayVars, mu, messages, clients, inbox, unregs, sent>>

\* first Recv, validation of the handshake frame, UserExists
Handshake(s) ==
    \/ \* Recv fails: transport broken, or the client left without a frame
       /\ pc[s] = "handshake"
       /\ pc' = [pc EXCEPT ![s] = "closed"]
       /\ local' = [local EXCEPT ![s] = Returned("InvalidArgument", FALSE)]
       /\ conn' = [conn EXCEPT ![s] = "down"]
       /\ UNCHANGED <<gatewayVars, mu, messages, clients, inbox, unregs, sent>>
    \/ \E f \in HandshakeFrames(s), dbOk \in BOOLEAN : HandshakeOn(s, f, dbOk)

\* record -> ChatMessage of the replay loop
HistoryMsg(record) ==
    [Roomid |-> record.room_id, Username |-> record.username,
     Message |-> record.message_content]

\* GetMessagesByRoomID(roomID, 50); an error skips the replay
LoadHistory(s) ==
    /\ pc[s] = "loadHistory"
    /\ \E dbOk \in BOOLEAN :
         LET h == GetMessagesByRoomID(messages, local[s].roomID, ReplayLimit, dbOk) IN
         /\ local' = [local EXCEPT ![s].history = h.records]
         /\ pc' = [pc EXCEPT ![s] = IF h.err \/ h.records = <<>> THEN "register"
                                    ELSE "replay"]
    /\ UNCHANGED <<gatewayVars, mu, messages, clients, conn, inbox, unregs, sent>>

\* a replay loop that continues after a failed send
ReplayContinues(history, ok) == Tail(history)

\* the records still to replay after the send of the first record of
\* history has returned: the loop breaks on an error
ReplayNext(history, ok) == IF ok THEN Tail(history) ELSE <<>>

\* one iteration of the replay loop: stream.Send(historyMsg), break on error
ReplaySend(s) ==
    /\ pc[s] = "replay"
    /\ \E ok \in SendOutcomes(s) :
         LET record == Head(local[s].history)
             rest == ReplayNext(local[s].history, ok)
         IN
         /\ conn' = AfterSend(s, ok)
         /\ inbox' = IF ok
                     THEN [inbox EXCEPT ![s] = Append(@, [via |-> "history",
                                                         msg |-> HistoryMsg(record)])]
                     ELSE inbox
         /\ local' = [local EXCEPT ![s].history = rest]
         /\ pc' = [pc EXCEPT ![s] = IF rest = <<>> THEN "register" ELSE "replay"]
    /\ UNCHANGED <<gatewayVars, mu, messages, clients, unregs, sent>>

\* s.clients[roomID] = append(s.clients[roomID], stream)
RegisterStep(s) ==
    /\ pc[s] = "register"
    /\ clients' = Registered(clients, local[s].roomID, s)
    /\ local' = [local EXCEPT ![s].registered = TRUE]
    /\ pc' = [pc EXCEPT ![s] = "saveJoin"]
    /\ UNCHANGED <<gatewayVars, messages, conn, inbox, unregs, sent>>

\* the registration with its mu.Lock and mu.Unlock, as one step
Register(s) == RegisterStep(s) /\ UNCHANGED mu

SenderID(userName) == <<"TEMP_USER_", userName>>

\* a handler that returns when SaveMessage fails
AfterSaveFatal(err) == IF err THEN "cleanup" ELSE "snapshot"

\* the position of the handler after SaveMessage has returned err: a
\* failure is logged and the frame is broadcast all the same
AfterSave(err) == "snapshot"

\* SaveMessage of the handshake frame; a failure is logged
SaveJoin(s) ==
    /\ pc[s] = "saveJoin"
    /\ \E dbOk \in BOOLEAN :
         LET r == SaveMessage(messages, local[s].roomID, SenderID(local[s].userName),
                              local[s].userName, local[s].msg.Message, dbOk)
         IN
         /\ messages' = r.messages
         /\ pc' = [pc EXCEPT ![s] = AfterSave(r.err)]
    /\ local' = [local EXCEPT ![s].bRoom = local[s].roomID]
    /\ UNCHANGED <<gatewayVars, mu, clients, conn, inbox, unregs, sent>>

\* broadcastMessage: clients := s.clients[roomID]
SnapshotStep(s) ==
    /\ pc[s] = "snapshot"
    /\ LET cs == ClientsOf(clients, local[s].bRoom) IN
       /\ local' = [local EXCEPT ![s].snapshot = cs]
       /\ pc' = [pc EXCEPT ![s] = IF cs = <<>> THEN "recv" ELSE "send"]
    /\ UNCHANGED <<gatewayVars, messages, clients, conn, inbox, unregs, sent>>

\* the snapshot with its mu.RLock and mu.RUnlock, as one step
Snapshot(s) == SnapshotStep(s) /\ UNCHANGED mu

\* a send loop that stops at the first failed send
SendLoopBreaks(snapshot, ok) ==
    IF ok
    THEN [snapshot |-> Tail(snapshot),
          pc |-> IF Tail(snapshot) = <<>> THEN "recv" ELSE "send", ret |-> "none"]
    ELSE [snapshot |-> <<>>, pc |-> "recv", ret |-> "none"]

\* a send loop whose failed send makes the handler return the error
SendLoopFails(snapshot, ok) ==
    IF ok
    THEN [snapshot |-> Tail(snapshot),
          pc |-> IF Tail(snapshot) = <<>> THEN "recv" ELSE "send", ret |-> "none"]
    ELSE [snapshot |-> <<>>, pc |-> "cleanup", ret |-> "error"]

\* the range loop of broadcastMessage after the send to the first client of
\* snapshot has returned: the clients still to send to, the position of
\* the handler and the status it is to return; a failure is only logged
SendLoopNext(snapshot, ok) ==
    [snapshot |-> Tail(snapshot),
     pc |-> IF Tail(snapshot) = <<>> THEN "recv" ELSE "send", ret |-> "none"]

\* broadcastMessage: one iteration of the send loop; a failure is logged
BroadcastSend(s) ==
    /\ pc[s] = "send"
    /\ LET client == Head(local[s].snapshot) IN
       \E ok \in SendOutcomes(client) :
           LET n == SendLoopNext(local[s].snapshot, ok) IN
           /\ conn' = AfterSend(client, ok)
           /\ inbox' = IF ok
                       THEN [inbox EXCEPT ![client] = Append(@, [via |-> "live",
                                                                 msg |-> local[s].msg])]
                       ELSE inbox
           /\ local' = [local EXCEPT ![s].snapshot = n.snapshot, ![s].ret = n.ret]
           /\ pc' = [pc EXCEPT ![s] = n.pc]
    /\ UNCHANGED <<gatewayVars, mu, messages, clients, unregs, sent>>

\* Recv of the receive loop on a client that sends a frame of frames:
\* io.EOF returns nil, an error returns it, an empty body continues
RecvFrames(s, frames) ==
    /\ pc[s] = "recv"
    /\ \/ \* the client half-closed: io.EOF
          /\ conn[s] = "open"
          /\ pc' = [pc EXCEPT ![s] = "cleanup"]
          /\ local' = [local EXCEPT ![s].ret = "OK"]
          /\ UNCHANGED <<conn, sent>>
       \/ \* transport error or cancellation
          /\ pc' = [pc EXCEPT ![s] = "cleanup"]
          /\ local' = [local EXCEPT ![s].ret = "error"]
          /\ conn' = [conn EXCEPT ![s] = "down"]
          /\ UNCHANGED sent
       \/ \E f \in frames :
            /\ conn[s] = "open"
            /\ sent < MaxFrames
            /\ sent' = sent + 1
            /\ IF f.Message = EmptyBody
               THEN /\ local' = [local EXCEPT ![s].recvd = @ + 1]
                    /\ UNCHANGED pc
               ELSE /\ pc' = [pc EXCEPT ![s] = "save"]
                    /\ local' = [local EXCEPT ![s].msg = f, ![s].recvd = @ + 1]
            /\ UNCHANGED conn
    /\ UNCHANGED <<gatewayVars, mu, messages, clients, inbox, unregs>>

\* Recv of the receive loop on the client of cmd/chatclient
Recv(s) ==
    RecvFrames(s, LaterFrames(s, local[s].recvd, local[s].roomID, local[s].userName))

\* SaveMessage of a received frame; a failure is logged
Save(s) ==
    /\ pc[s] = "save"
    /\ \E dbOk \in BOOLEAN :
         LET r == SaveMessage(messages, local[s].msg.Roomid,
                              SenderID(local[s].userName), local[s].msg.Username,
                              local[s].msg.Message, dbOk)
         IN
         /\ messages' = r.messages
         /\ pc' = [pc EXCEPT ![s] = AfterSave(r.err)]
    /\ local' = [local EXCEPT ![s].bRoom = local[s].msg.Roomid]
    /\ UNCHANGED <<gatewayVars, mu, clients, conn, inbox, unregs, sent>>

\* the body of the deferred cleanup
CleanupStep(s) ==
    /\ pc[s] = "cleanup"
    /\ clients' = Unregistered(clients, local[s].roomID, s)
    /\ unregs' = [unregs EXCEPT ![s] = @ + 1]
    /\ pc' = [pc EXCEPT ![s] = "closed"]
    /\ local' = [local EXCEPT ![s] = Returned(local[s].ret, TRUE)]
    /\ conn' = [conn EXCEPT ![s] = "down"]
    /\ inbox' = [inbox EXCEPT ![s] = <<>>]
    /\ UNCHANGED <<gatewayVars, messages, sent>>

\* the deferred cleanup with its mu.Lock and mu.Unlock, as one step
Cleanup(s) == CleanupStep(s) /\ UNCHANGED mu

----------------------------------------------------------------------------
(* Specification of the repository-backed chat server                       *)

\* alice and bob have accounts, carol has none
ChatUsers ==
    [n \in Names |->
        IF n = "alice" THEN [known |-> TRUE, id |-> <<1, 2, 3, 4>>, created |-> 1]
        ELSE IF n = "bob" THEN [known |-> TRUE, id |-> <<2, 3, 4, 5>>, created |-> 2]
        ELSE NoUser]

\* the state after alice has asked for her room with bob
Init ==
    /\ users = ChatUsers
    /\ rooms = {[room_id |-> RoomAB, user1_id |-> "alice", user2_id |-> "bob"]}
    /\ resp = [my |-> "alice", other |-> "bob", code |-> "OK", room_id |-> RoomAB,
               storageErr |-> FALSE]
    /\ InitSessions

Next ==
    \E s \in Sessions :
        \/ Handshake(s)
        \/ LoadHistory(s)
        \/ ReplaySend(s)
        \/ Register(s)
        \/ SaveJoin(s)
        \/ Snapshot(s)
        \/ BroadcastSend(s)
        \/ Recv(s)
        \/ Save(s)
        \/ Cleanup(s)

Spec == Init /\ [][Next]_vars

----------------------------------------------------------------------------
(* ChatServer.JoinChat and broadcastMessage of the in-memory server         *)
(* (cmd/usersvc/main.go): no gateway, and a broadcast that evicts the       *)
(* clients its sends failed for                                             *)

\* first Recv and validation of the handshake frame
MemHandshake(s) ==
    /\ pc[s] = "handshake"
    /\ \/ \* Recv fails
          /\ pc' = [pc EXCEPT ![s] = "closed"]
          /\ local' = [local EXCEPT ![s] = Returned("InvalidArgument", FALSE)]
       \/ \E f \in HandshakeFrames(s) :
            /\ conn[s] = "open"
            /\ IF f.Roomid = NoRoom \/ f.Username = ""
               THEN /\ pc' = [pc EXCEPT ![s] = "closed"]
                    /\ local' = [local EXCEPT ![s] = Returned("InvalidArgument", FALSE)]
               ELSE /\ pc' = [pc EXCEPT ![s] = "register"]
                    /\ local' = [local EXCEPT ![s].roomID = f.Roomid,
                                              ![s].userName = f.Username,
                                              ![s].msg = f,
                                              ![s].recvd = 1]
    /\ conn' = IF pc'[s] = "closed" THEN [conn EXCEPT ![s] = "down"] ELSE conn
    /\ UNCHANGED <<gatewayVars, mu, messages, clients, inbox, unregs, sent>>

\* s.clients[roomID] = append(s.clients[roomID], stream), under mu.Lock;
\* the join message is broadcast next
MemRegisterStep(s) ==
    /\ pc[s] = "register"
    /\ clients' = Registered(clients, local[s].roomID, s)
    /\ local' = [local EXCEPT ![s].registered = TRUE, ![s].bRoom = local[s].roomID]
    /\ pc' = [pc EXCEPT ![s] = "snapshot"]
    /\ UNCHANGED <<gatewayVars, messages, conn, inbox, unregs, sent>>

\* the registration with its mu.Lock and mu.Unlock, as one step
MemRegister(s) == MemRegisterStep(s) /\ UNCHANGED mu

\* broadcastMessage: clients := s.clients[roomID], under mu.RLock
MemSnapshotStep(s) ==
    /\ pc[s] = "snapshot"
    /\ LET cs == ClientsOf(clients, local[s].bRoom) IN
       /\ local' = [local EXCEPT ![s].snapshot = cs, ![s].failedClients = <<>>]
       /\ pc' = [pc EXCEPT ![s] = IF cs = <<>> THEN "recv" ELSE "send"]
    /\ UNCHANGED <<gatewayVars, messages, clients, conn, inbox, unregs, sent>>

\* the snapshot with its mu.RLock and mu.RUnlock, as one step
MemSnapshot(s) == MemSnapshotStep(s) /\ UNCHANGED mu

\* broadcastMessage: one iteration of the send loop; a client whose send
\* fails is appended to failedClients
MemBroadcastSend(s) ==
    /\ pc[s] = "send"
    /\ LET client == Head(local[s].snapshot)
           rest == Tail(local[s].snapshot)
       IN
       \E ok \in SendOutcomes(client) :
           LET failed == IF ok THEN local[s].failedClients
                         ELSE Append(local[s].failedClients, client)
           IN
           /\ conn' = AfterSend(client, ok)
           /\ inbox' = IF ok
                       THEN [inbox EXCEPT ![client] = Append(@, [via |-> "live",
                                                                 msg |-> local[s].msg])]
                       ELSE inbox
           /\ local' = [local EXCEPT ![s].snapshot = rest, ![s].failedClients = failed]
           /\ pc' = [pc EXCEPT ![s] = IF rest # <<>> THEN "send"
                                      ELSE IF Len(failed) > 0 THEN "evict"
                                      ELSE "recv"]
    /\ UNCHANGED <<gatewayVars, mu, messages, clients, unregs, sent>>

\* the clients of list that are not among failed, in order
RECURSIVE ActiveClients(_, _)
ActiveClients(list, failed) ==
    IF list = <<>> THEN <<>>
    ELSE IF \E i \in 1..Len(failed) : failed[i] = Head(list)
         THEN ActiveClients(Tail(list), failed)
         ELSE <<Head(list)>> \o ActiveClients(Tail(list), failed)

\* an eviction that empties the room
EvictedRoomEmptied(cl, roomID, failed) == PutClients(cl, roomID, <<>>)

\* s.clients[roomID] = activeClients of the eviction
Evicted(cl, roomID, failed) ==
    PutClients(cl, roomID, ActiveClients(ClientsOf(cl, roomID), failed))

\* broadcastMessage: removal of the failed clients, under mu.Lock
MemEvictStep(s) ==
    /\ pc[s] = "evict"
    /\ clients' = Evicted(clients, local[s].bRoom, local[s].failedClients)
    /\ local' = [local EXCEPT ![s].failedClients = <<>>]
    /\ pc' = [pc EXCEPT ![s] = "recv"]
    /\ UNCHANGED <<gatewayVars, messages, conn, inbox, unregs, sent>>

\* the eviction with its mu.Lock and mu.Unlock, as one step
MemEvict(s) == MemEvictStep(s) /\ UNCHANGED mu

\* Recv of the receive loop: any error returns it, an empty body continues,
\* any other frame is broadcast to msg.Roomid
MemRecv(s) ==
    /\ pc[s] = "recv"
    /\ \/ \* io.EOF, transport error or cancellation
          /\ pc' = [pc EXCEPT ![s] = "cleanup"]
          /\ local' = [local EXCEPT ![s].ret = "error"]
          /\ conn' = [conn EXCEPT ![s] = "down"]
          /\ UNCHANGED sent
       \/ \E f \in LaterFrames(s, local[s].recvd, local[s].roomID, local[s].userName) :
            /\ conn[s] = "open"
            /\ sent < MaxFrames
            /\ sent' = sent + 1
            /\ IF f.Message = EmptyBody
               THEN /\ local' = [local EXCEPT ![s].recvd = @ + 1]
                    /\ UNCHANGED pc
               ELSE /\ pc' = [pc EXCEPT ![s] = "snapshot"]
                    /\ local' = [local EXCEPT ![s].msg = f, ![s].recvd = @ + 1,
                                              ![s].bRoom = f.Roomid]
            /\ UNCHANGED conn
    /\ UNCHANGED <<gatewayVars, mu, messages, clients, inbox, unregs>>

\* the deferred cleanup, under mu.Lock
MemCleanupStep(s) ==
    /\ pc[s] = "cleanup"
    /\ clients' = Unregistered(clients, local[s].roomID, s)
    /\ unregs' = [unregs EXCEPT ![s] = @ + 1]
    /\ pc' = [pc EXCEPT ![s] = "closed"]
    /\ local' = [local EXCEPT ![s] = Returned(local[s].ret, TRUE)]
    /\ conn' = [conn EXCEPT ![s] = "down"]
    /\ inbox' = [inbox EXCEPT ![s] = <<>>]
    /\ UNCHANGED <<gatewayVars, messages, sent>>

\* the deferred cleanup with its mu.Lock and mu.Unlock, as one step
MemCleanup(s) == MemCleanupStep(s) /\ UNCHANGED mu

----------------------------------------------------------------------------
(* Specification of the in-memory chat server                               *)

InitMem ==
    /\ users = ChatUsers
    /\ rooms = {}
    /\ resp = NoResp
    /\ InitSessions

NextMem ==
    \E s \in Sessions :
        \/ MemHandshake(s)
        \/ MemRegister(s)
        \/ MemSnapshot(s)
        \/ MemBroadcastSend(s)
        \/ MemEvict(s)
        \/ MemRecv(s)
        \/ MemCleanup(s)

SpecMem == InitMem /\ [][NextMem]_vars

----------------------------------------------------------------------------
(* The repository-backed chat server with the acquisitions of              *)
(* ChatServer.mu as steps of their own: a handler that has acquired the    *)
(* lock holds it until the step that mutates or reads the registry and     *)
(* releases it                                                             *)

\* the handlers holding mu in either mode
Holders(m) == m.writers \cup m.readers

\* mu.Unlock by s
UnlockBy(m, s) == [m EXCEPT !.writers = @ \ {s}]

\* an RUnlock that is deferred to the return of broadcastMessage
RUnlockDeferred(m, s) == m

\* mu.RUnlock by s
RUnlockBy(m, s) == [m EXCEPT !.readers = @ \ {s}]

\* s.mu.Lock() of the registration and of the deferred cleanup: blocks
\* while any handler holds the lock
Lock(s) ==
    /\ pc[s] \in {"register", "cleanup"}
    /\ Holders(mu) = {}
    /\ mu' = [mu EXCEPT !.writers = {s}]
    /\ UNCHANGED <<gatewayVars, messages, clients, pc, conn, local, inbox, unregs, sent>>

\* s.mu.RLock() of broadcastMessage: blocks while a handler holds the
\* write lock
RLock(s) ==
    /\ pc[s] = "snapshot"
    /\ s \notin mu.readers
    /\ mu.writers = {}
    /\ mu' = [mu EXCEPT !.readers = @ \cup {s}]
    /\ UNCHANGED <<gatewayVars, messages, clients, pc, conn, local, inbox, unregs, sent>>

\* the registration and s.mu.Unlock()
RegisterUnlock(s) ==
    /\ s \in mu.writers
    /\ RegisterStep(s)
    /\ mu' = UnlockBy(mu, s)

\* the read of s.clients[roomID] and s.mu.RUnlock()
SnapshotRUnlock(s) ==
    /\ s \in mu.readers
    /\ SnapshotStep(s)
    /\ mu' = RUnlockBy(mu, s)

\* the body of the deferred cleanup and s.mu.Unlock()
CleanupUnlock(s) ==
    /\ s \in mu.writers
    /\ CleanupStep(s)
    /\ mu' = UnlockBy(mu, s)

NextLock ==
    \E s \in Sessions :
        \/ Handshake(s)
        \/ LoadHistory(s)
        \/ ReplaySend(s)
        \/ Lock(s)
        \/ RegisterUnlock(s)
        \/ SaveJoin(s)
        \/ RLock(s)
        \/ SnapshotRUnlock(s)
        \/ BroadcastSend(s)
        \/ Recv(s)
        \/ Save(s)
        \/ CleanupUnlock(s)

SpecLock == Init /\ [][NextLock]_vars

----------------------------------------------------------------------------
(* The in-memory chat server with the acquisitions of ChatServer.mu as     *)
(* steps of their own, and a caller of GetRoomStats                        *)

\* the caller of GetRoomStats, which is no stream
StatsCaller == 0

\* a server whose every section takes the read lock
LockModeAllRead(position) == "read"

\* the mode in which the section at a position of a handler acquires mu:
\* Lock for the registration, the eviction and the deferred cleanup, RLock
\* for the snapshot
LockMode(position) == IF position = "snapshot" THEN "read" ELSE "write"

\* s.mu.Lock() or s.mu.RLock() of the section the handler is at: Lock
\* blocks while any caller holds mu, RLock while a caller holds it for
\* writing
MemAcquire(s) ==
    /\ pc[s] \in {"register", "snapshot", "evict", "cleanup"}
    /\ s \notin Holders(mu)
    /\ IF LockMode(pc[s]) = "write"
       THEN /\ Holders(mu) = {}
            /\ mu' = [mu EXCEPT !.writers = {s}]
       ELSE /\ mu.writers = {}
            /\ mu' = [mu EXCEPT !.readers = @ \cup {s}]
    /\ UNCHANGED <<gatewayVars, messages, clients, pc, conn, local, inbox, unregs, sent>>

\* the release of mu by s in the mode it holds it
MemRelease(m, s) == RUnlockBy(UnlockBy(m, s), s)

\* the registration and s.mu.Unlock()
MemRegisterUnlock(s) ==
    /\ s \in Holders(mu)
    /\ MemRegisterStep(s)
    /\ mu' = MemRelease(mu, s)

\* the read of s.clients[roomID] and s.mu.RUnlock()
MemSnapshotRUnlock(s) ==
    /\ s \in Holders(mu)
    /\ MemSnapshotStep(s)
    /\ mu' = MemRelease(mu, s)

\* the removal of the failed clients and s.mu.Unlock()
MemEvictUnlock(s) ==
    /\ s \in Holders(mu)
    /\ MemEvictStep(s)
    /\ mu' = MemRelease(mu, s)

\* the body of the deferred cleanup and the deferred s.mu.Unlock()
MemCleanupUnlock(s) ==
    /\ s \in Holders(mu)
    /\ MemCleanupStep(s)
    /\ mu' = MemRelease(mu, s)

\* GetRoomStats: s.mu.RLock()
StatsRLock ==
    /\ StatsCaller \notin mu.readers
    /\ mu.writers = {}
    /\ mu' = [mu EXCEPT !.readers = @ \cup {StatsCaller}]
    /\ UNCHANGED <<gatewayVars, messages, clients, pc, conn, local, inbox, unregs, sent>>

\* GetRoomStats: the range over s.clients and the deferred s.mu.RUnlock();
\* the registry is only read
StatsRUnlock ==
    /\ StatsCaller \in mu.readers
    /\ mu' = RUnlockBy(mu, StatsCaller)
    /\ UNCHANGED <<gatewayVars, messages, clients, pc, conn, local, inbox, unregs, sent>>

NextMemLock ==
    \/ \E s \in Sessions :
          \/ MemHandshake(s)
          \/ MemAcquire(s)
          \/ MemRegisterUnlock(s)
          \/ MemSnapshotRUnlock(s)
          \/ MemBroadcastSend(s)
          \/ MemEvictUnlock(s)
          \/ MemRecv(s)
          \/ MemCleanupUnlock(s)
    \/ StatsRLock
    \/ StatsRUnlock

SpecMemLock == InitMem /\ [][NextMemLock]_vars

----------------------------------------------------------------------------
(* The repository-backed chat server under fair scheduling of the          *)
(* handlers, with one client whose transport may stall: a Send to it may   *)
(* never return                                                            *)

\* the stream whose client may stop reading
StalledClient == 1

\* the steps a handler takes on its own once it is scheduled: every step
\* but a Recv on a live transport, which waits for its client, and a Send
\* to the stalled client, which may never return; a Recv on a transport
\* that is down returns the error
Worker(s) ==
    \/ Recv(s) /\ conn[s] = "down"
    \/ LoadHistory(s)
    \/ ReplaySend(s) /\ s # StalledClient
    \/ Register(s)
    \/ SaveJoin(s)
    \/ Snapshot(s)
    \/ BroadcastSend(s) /\ Head(local[s].snapshot) # StalledClient
    \/ Save(s)
    \/ Cleanup(s)

SpecStall == Init /\ [][Next]_vars /\ \A s \in Sessions : WF_vars(Worker(s))

----------------------------------------------------------------------------
(* The repository-backed chat server with clients that are free in the     *)
(* frames they send: ChatMessage carries a room identifier and a username  *)
(* in every frame, and any gRPC client can set them                        *)

\* later frames a client may send: any room identifier or none, any
\* username or none, any body
AnyFrames(s, k) ==
    [Roomid : RoomIDs \cup {NoRoom}, Username : Names \cup {""},
     Message : {EmptyBody, Body(s, k)}]

\* Recv of the receive loop on such a client
RecvAny(s) == RecvFrames(s, AnyFrames(s, local[s].recvd))

NextOpen ==
    \E s \in Sessions :
        \/ Handshake(s)
        \/ LoadHistory(s)
        \/ ReplaySend(s)
        \/ Register(s)
        \/ SaveJoin(s)
        \/ Snapshot(s)
        \/ BroadcastSend(s)
        \/ RecvAny(s)
        \/ Save(s)
        \/ Cleanup(s)

SpecOpen == Init /\ [][NextOpen]_vars

----------------------------------------------------------------------------
(* Specification of the repository-backed chat server on a room that       *)
(* already holds more persisted messages than one replay loads             *)

\* the messages table after an earlier session of alice in the room of
\* alice and bob: one row more than the replay limit, oldest first
Backlog ==
    [i \in 1..(ReplayLimit + 1) |->
        [room_id |-> RoomAB, sender_id |-> SenderID("alice"), username |-> "alice",
         message_content |-> Body(0, i)]]

InitBacklog ==
    /\ users = ChatUsers
    /\ rooms = {[room_id |-> RoomAB, user1_id |-> "alice", user2_id |-> "bob"]}
    /\ resp = [my |-> "alice", other |-> "bob", code |-> "OK", room_id |-> RoomAB,
               storageErr |-> FALSE]
    /\ messages = Backlog
    /\ clients = <<>>
    /\ pc = [s \in Sessions |-> "handshake"]
    /\ conn = [s \in Sessions |-> "open"]
    /\ local = [s \in Sessions |-> NoLocal]
    /\ inbox = [s \in Sessions |-> <<>>]
    /\ unregs = [s \in Sessions |-> 0]
    /\ sent = 0
    /\ mu = Unlocked

SpecBacklog == InitBacklog /\ [][Next]_vars

----------------------------------------------------------------------------
(* Specification of the room identity resolver: any users table, any       *)
(* sequence of GetRoomID calls                                              *)

InitRoomID ==
    /\ users \in UserTables
    /\ rooms = {}
    /\ resp = NoResp
    /\ InitSessions

NextRoomID == GetRoomID

SpecRoomID == InitRoomID /\ [][NextRoomID]_vars

----------------------------------------------------------------------------
(* Claims about GetRoomID, checked under SpecRoomID                         *)

Known(id) == id \in Names /\ users[id].known

\* C1: GetRoomID is commutative: when GetRoomID(A, B) has returned a room
\* identifier, GetRoomID(B, A) returns the same identifier, whatever the
\* creation timestamps (equal ones included) and unique identifiers.
C1_Commutative ==
    resp.code = "OK" =>
        LET swapped == GetRoomIDCall(rooms, resp.other, resp.my, "none").resp IN
        swapped.code = "OK" /\ swapped.room_id = resp.room_id

\* a call on two different identities created at the same time has returned
C1_Witness ==
    /\ resp.code = "OK"
    /\ resp.my # resp.other
    /\ users[resp.my].created = users[resp.other].created

\* C2: the identifier returned for known identities is the first three
\* characters of the unique identifier of the identity created earlier,
\* followed by the first three of the one created later; on equal
\* timestamps the lexicographically smaller unique identifier goes first;
\* the result has length 6.
C2_PrefixOfEarlierThenLater ==
    resp.code = "OK" =>
        LET a == users[resp.my]
            b == users[resp.other]
            earlier == IF a.created < b.created THEN a
                       ELSE IF b.created < a.created THEN b
                       ELSE IF StrLess(a.id, b.id) THEN a ELSE b
            later == IF earlier = a THEN b ELSE a
        IN
        /\ Len(resp.room_id) = 6
        /\ resp.room_id = <<earlier.id[1], earlier.id[2], earlier.id[3],
                            later.id[1], later.id[2], later.id[3]>>

\* a call whose second argument is the identity created earlier has returned
C2_Witness ==
    /\ resp.code = "OK"
    /\ users[resp.other].created < users[resp.my].created
    /\ users[resp.other].id[1] # users[resp.my].id[1]

\* C3: whenever GetRoomID(A, B) has returned identifier X, the persisted
\* room row X records exactly A and B as its participants.
C3_RowRecordsThePair ==
    resp.code = "OK" =>
        \A r \in rooms :
            r.room_id = resp.room_id => {r.user1_id, r.user2_id} = {resp.my, resp.other}

\* C4: room creation is idempotent: a successful call leaves exactly one
\* row for the identifier it returns, and a call for an unordered pair
\* whose row an earlier call created, in either argument order, leaves the
\* rooms table unchanged and succeeds (it fails only on a storage error).
C4_IdempotentCreate ==
    [][ LET pairHasRow == \E r \in rooms :
                              {r.user1_id, r.user2_id} = {resp'.my, resp'.other}
        IN
        /\ resp'.code = "OK" =>
               Cardinality({r \in rooms' : r.room_id = resp'.room_id}) = 1
        /\ pairHasRow =>
               /\ rooms' = rooms
               /\ ~resp'.storageErr => resp'.code = "OK" ]_vars

\* a call in the opposite argument order has succeeded on an existing row
C4_Witness ==
    /\ resp.code = "OK"
    /\ resp.my # resp.other
    /\ \E r \in rooms : r.user1_id = resp.other /\ r.user2_id = resp.my

\* C5 as stated: when either identity is unknown to the gateway, the call
\* fails with NotFound and the rooms table is unchanged.
C5_UnknownIsNotFound ==
    [][ (~Known(resp'.my) \/ ~Known(resp'.other)) =>
            (resp'.code = "NotFound" /\ rooms' = rooms) ]_vars

\* C5 amended: when both identities are non-empty and either is unknown to
\* the gateway, the call fails with NotFound; when either is empty it fails
\* with InvalidArgument; in both cases the rooms table is unchanged.
C5_UnknownIsNotFoundUnlessEmpty ==
    [][ (~Known(resp'.my) \/ ~Known(resp'.other)) =>
            /\ rooms' = rooms
            /\ resp'.code = IF resp'.my = "" \/ resp'.other = ""
                            THEN "InvalidArgument" ELSE "NotFound" ]_vars

\* a call with a known and an unknown identity has failed with NotFound
\* while rooms exist
C5_Witness ==
    /\ resp.code = "NotFound"
    /\ ~resp.storageErr
    /\ Known(resp.my)
    /\ ~Known(resp.other)
    /\ rooms # {}

----------------------------------------------------------------------------
(* Claims about the registry and the sessions                               *)

\* the streams whose handler has registered them in room r and has not
\* returned
JoinedIn(r) ==
    {s \in Sessions : local[s].registered /\ pc[s] # "closed" /\ local[s].roomID = r}

Occupancy(cl, r) == Len(ClientsOf(cl, r))

\* C6: while N streams are joined to a room its list holds exactly those N
\* streams; a leaving stream lowers the occupancy of its room by one and
\* raises no occupancy; a room whose occupancy reached 0 has no key.
\* Checked under Spec.
C6_OccupancyFollowsJoins ==
    /\ [](\A r \in RoomIDs :
            /\ Occupancy(clients, r) = Cardinality(JoinedIn(r))
            /\ \A s \in JoinedIn(r) : \E i \in 1..Len(clients[r]) : clients[r][i] = s
            /\ Occupancy(clients, r) = 0 => r \notin DOMAIN clients)
    /\ [][\A s \in Sessions :
            (pc[s] = "cleanup" /\ pc'[s] = "closed") =>
                /\ Occupancy(clients', local[s].roomID)
                       = Occupancy(clients, local[s].roomID) - 1
                /\ \A r \in RoomIDs : Occupancy(clients', r) <= Occupancy(clients, r)]_vars

\* two streams are joined to the same room
C6_Witness == Occupancy(clients, RoomAB) = 2

\* C7: every room identifier that is a key of the registry maps to a
\* non-empty list, after any register, unregister or eviction.
\* Checked under SpecMem, whose broadcast evicts.
C7_NoEmptyRoom == \A r \in DOMAIN clients : Len(clients[r]) > 0

\* C8: the cleanup of a registered stream runs exactly once, whichever way
\* its handler returns, and never for a stream that was not registered;
\* once the handler has returned the stream is in no list of the registry.
\* Checked under Spec.
C8_CleanupOnce ==
    \A s \in Sessions :
        /\ unregs[s] = IF pc[s] = "closed" /\ local[s].registered THEN 1 ELSE 0
        /\ pc[s] = "closed" => ~InRegistry(clients, s)

\* a registered stream has returned on a receive error while the other
\* stream is still registered
C8_Witness ==
    \E s, t \in Sessions :
        /\ pc[s] = "closed"
        /\ local[s].registered
        /\ local[s].ret = "error"
        /\ InRegistry(clients, t)

\* the wire messages of a list of records
HistoryMsgs(records) == [i \in 1..Len(records) |-> HistoryMsg(records[i])]

\* one successful send of ReplaySend(s)
ReplaySent(s) ==
    /\ pc[s] = "replay"
    /\ local'[s] # local[s]
    /\ conn'[s] = "open"

C10_NoDuplicate ==
    \A s \in Sessions :
        \A i, j \in 1..Len(inbox[s]) :
            (i < j /\ inbox[s][i].msg.Message # EmptyBody) =>
                inbox[s][i].msg # inbox[s][j].msg

----------------------------------------------------------------------------
(* Claims about the handshake, the history and the broadcast                *)

\* the last n elements of q, all of q when it has no more than n
LastN(q, n) == IF Len(q) <= n THEN q ELSE SubSeq(q, Len(q) - n + 1, Len(q))

\* C11: the history a joining stream loads is the most recent ReplayLimit
\* persisted messages of its room in ascending time order: when the room
\* holds more, they are the newest ones. Checked under SpecBacklog.
C11_ReplayIsNewest ==
    [][\A s \in Sessions :
          (pc[s] = "loadHistory" /\ pc'[s] = "replay") =>
              local'[s].history = LastN(RoomRows(messages, local[s].roomID), ReplayLimit)]_vars

\* C12: a frame with an empty body causes no SaveMessage call and no
\* broadcast, the handshake frame included: no handler is at a SaveMessage
\* call or inside broadcastMessage with an empty-bodied frame in hand.
\* Checked under Spec.
C12_EmptyBodyIsDropped ==
    \A s \in Sessions :
        pc[s] \in {"saveJoin", "save", "snapshot", "send"} =>
            local[s].msg.Message # EmptyBody

\* this step is the handler of s returning with code from its handshake,
\* without registering, persisting, broadcasting or delivering anything
RejectedWith(s, code) ==
    /\ pc'[s] = "closed"
    /\ local'[s].ret = code
    /\ ~local'[s].registered
    /\ unregs' = unregs
    /\ clients' = clients
    /\ messages' = messages
    /\ rooms' = rooms
    /\ inbox' = inbox
    /\ \A t \in Sessions \ {s} : pc'[t] = pc[t] /\ local'[t] = local[t]

\* C13: a handshake whose participant identity is unknown to the gateway
\* ends the stream with Unauthenticated; the registry, the persisted
\* messages and the persisted rooms are unchanged, nothing is broadcast and
\* no history is delivered. Checked under Spec.
C13_UnknownIsUnauthenticated ==
    [][\A s \in Sessions : \A f \in HandshakeFrames(s), dbOk \in BOOLEAN :
          (HandshakeOn(s, f, dbOk) /\ ~InvalidFrame(f) /\ ~Known(f.Username)) =>
              RejectedWith(s, "Unauthenticated")]_vars

\* a handshake was rejected as Unauthenticated while the other stream is
\* registered in a room that holds persisted messages
C13_Witness ==
    \E s, t \in Sessions :
        /\ pc[s] = "closed"
        /\ local[s].ret = "Unauthenticated"
        /\ InRegistry(clients, t)
        /\ messages # <<>>

\* C14: a handshake frame with an empty room identifier or an empty
\* display name ends the stream with InvalidArgument whatever the gateway
\* would answer; the stream is never registered and nothing is persisted or
\* broadcast. Checked under Spec.
C14_MalformedIsInvalidArgument ==
    [][\A s \in Sessions : \A f \in HandshakeFrames(s), dbOk \in BOOLEAN :
          (HandshakeOn(s, f, dbOk) /\ (f.Roomid = NoRoom \/ f.Username = "")) =>
              RejectedWith(s, "InvalidArgument")]_vars

\* a handshake was rejected as InvalidArgument while the other stream is
\* registered in a room that holds persisted messages
C14_Witness ==
    \E s, t \in Sessions :
        /\ pc[s] = "closed"
        /\ local[s].ret = "InvalidArgument"
        /\ ~local[s].registered
        /\ InRegistry(clients, t)
        /\ messages # <<>>

\* this step is one iteration of the send loop of the broadcast of s
BroadcastSent(s) == pc[s] = "send" /\ local'[s].snapshot # local[s].snapshot

\* C15: in a broadcast, a recipient whose send succeeds receives exactly
\* one copy of the message, and a recipient whose send failed is absent
\* from the registry as soon as the broadcast has returned (stated for the
\* recipient of the last send of the broadcast, which the claim includes).
\* Checked under Spec.
C15_FailedRecipientIsEvicted ==
    [][\A s \in Sessions :
          BroadcastSent(s) =>
              LET c == Head(local[s].snapshot) IN
              IF conn'[c] = "open"
              THEN /\ inbox'[c] = Append(inbox[c], [via |-> "live", msg |-> local[s].msg])
                   /\ \A i \in 1..Len(local'[s].snapshot) : local'[s].snapshot[i] # c
              ELSE /\ inbox' = inbox
                   /\ pc'[s] = "recv" => ~InRegistry(clients', c)]_vars

\* C16: within one broadcast a failed send does not prevent the sends to
\* the other recipients: the snapshot is the list of the room, every
\* iteration of the loop attempts the send to the next client of the
\* snapshot and drops only that client, whatever the outcome, and the
\* handler leaves the loop only when no client is left. Checked under Spec.
C16_EveryRecipientAttempted ==
    /\ [](\A s \in Sessions : pc[s] = "send" <=> local[s].snapshot # <<>>)
    /\ [][\A s \in Sessions :
            /\ (pc[s] = "snapshot" /\ pc'[s] # "snapshot") =>
                   local'[s].snapshot = ClientsOf(clients, local[s].bRoom)
            /\ (pc[s] = "send" /\ (pc'[s] # "send" \/ local'[s] # local[s])) =>
                   LET c == Head(local[s].snapshot) IN
                   /\ local'[s].snapshot = Tail(local[s].snapshot)
                   /\ \/ inbox'[c] = Append(inbox[c], [via |-> "live", msg |-> local[s].msg])
                      \/ conn'[c] = "down" /\ inbox' = inbox]_vars

\* a broadcast is about to send to the second client of its snapshot after
\* its send to the first client, which is still registered, has failed
C16_Witness ==
    \E s \in Sessions :
        /\ pc[s] = "send"
        /\ Len(local[s].snapshot) = 1
        /\ Len(ClientsOf(clients, RoomAB)) = 2
        /\ local[s].snapshot[1] = clients[RoomAB][2]
        /\ conn[clients[RoomAB][1]] = "down"
        /\ local[s].msg.Message # EmptyBody
        /\ \A i \in 1..Len(inbox[clients[RoomAB][1]]) :
               inbox[clients[RoomAB][1]][i].msg # local[s].msg

\* C19: a failed send to another recipient during a broadcast does not
\* terminate or fail the originating handler: it stays in the send loop or
\* goes on to its next Recv, with no status to return, its transport as it
\* was and its stream still registered. Checked under Spec.
C19_OriginatorSurvives ==
    [][\A s \in Sessions :
          (BroadcastSent(s) /\ Head(local[s].snapshot) # s
               /\ conn'[Head(local[s].snapshot)] = "down") =>
              /\ pc'[s] = IF Tail(local[s].snapshot) = <<>> THEN "recv" ELSE "send"
              /\ local'[s].ret = "none"
              /\ local'[s].registered
              /\ conn'[s] = conn[s]
              /\ InRegistry(clients', s)]_vars

\* the second stream of a room is at its next Recv, open and registered,
\* after it received its own message and the send of that message to the
\* first stream of the room failed
C19_Witness ==
    /\ ClientsOf(clients, RoomAB) = <<1, 2>>
    /\ pc[2] = "recv"
    /\ conn[2] = "open"
    /\ local[2].ret = "none"
    /\ \E i \in 1..Len(inbox[2]) :
           /\ inbox[2][i].via = "live"
           /\ inbox[2][i].msg.Username = ClientName(2)
           /\ inbox[2][i].msg.Message # EmptyBody
    /\ \A i \in 1..Len(inbox[1]) : inbox[1][i].msg.Username # ClientName(2)

\* the indexes of the frames a stream sends: 0 is its handshake frame
FrameIndexes == 0..MaxFrames

\* C20: per-sender FIFO: when a stream sends non-empty frame k1 before
\* non-empty frame k2, the row of k2 is never stored before the row of k1
\* and no stream receives k2 by live broadcast before k1, whatever the other
\* stream does. Checked under Spec.
C20_PerSenderFIFO ==
    \A s \in Sessions : \A k1, k2 \in FrameIndexes :
        k1 < k2 =>
            /\ \A i, j \in 1..Len(messages) :
                   (messages[i].message_content = Body(s, k2)
                        /\ messages[j].message_content = Body(s, k1)) => j < i
            /\ \A r \in Sessions : \A i, j \in 1..Len(inbox[r]) :
                   (inbox[r][i].via = "live" /\ inbox[r][j].via = "live"
                        /\ inbox[r][i].msg.Message = Body(s, k2)
                        /\ inbox[r][j].msg.Message = Body(s, k1)) => j < i

\* both frames of a stream are stored and the other stream has received
\* both by live broadcast
C20_Witness ==
    \E s \in Sessions : \E r \in Sessions \ {s} :
        /\ \E i, j \in 1..Len(messages) :
               /\ messages[i].message_content = Body(s, 0)
               /\ messages[j].message_content = Body(s, 1)
        /\ \E i, j \in 1..Len(inbox[r]) :
               /\ inbox[r][i] = [via |-> "live", msg |-> [Roomid |-> RoomAB,
                                   Username |-> ClientName(s), Message |-> Body(s, 0)]]
               /\ inbox[r][j] = [via |-> "live", msg |-> [Roomid |-> RoomAB,
                                   Username |-> ClientName(s), Message |-> Body(s, 1)]]

\* C18: a handler that is executing a network send (replay or broadcast)
\* or a gateway call holds neither the read lock nor the write lock of the
\* registry. Checked under SpecLock.
C18_NoLockAcrossIO ==
    \A s \in Sessions :
        pc[s] \in {"handshake", "loadHistory", "replay", "saveJoin", "save", "send"} =>
            s \notin Holders(mu)

\* a handler is in the send loop of a broadcast, after its read of the
\* registry under the read lock, while another handler holds the write lock
C18_Witness ==
    \E s \in Sessions : \E t \in Sessions \ {s} :
        /\ pc[s] = "send"
        /\ t \in mu.writers

\* the clients of a list
Range(q) == {q[i] : i \in 1..Len(q)}

\* stream c has received frame k of stream s by live broadcast
Delivered(c, s, k) ==
    \E i \in 1..Len(inbox[c]) :
        inbox[c][i].via = "live" /\ inbox[c][i].msg.Message = Body(s, k)

\* C17: a stalled recipient cannot stall others: while the send to the
\* stalled client never returns, every other client in the snapshot of a
\* broadcast still eventually receives the message (or its own transport
\* fails), and every handler that has reached its registration eventually
\* completes it. Checked under SpecStall.
C17_StalledDoesNotStall ==
    /\ \A s \in Sessions : \A c \in Sessions \ {StalledClient} : \A k \in FrameIndexes :
           (pc[s] = "send" /\ local[s].msg.Message = Body(s, k)
                /\ c \in Range(local[s].snapshot))
               ~> (Delivered(c, s, k) \/ conn[c] = "down")
    /\ \A s \in Sessions : (pc[s] = "register") ~> local[s].registered

----------------------------------------------------------------------------
(* Claims about the join, the failure policy and the session lifecycle      *)

\* the positions in the inbox of s of its own join message
OwnJoin(s) ==
    {i \in 1..Len(inbox[s]) :
        /\ inbox[s][i].msg.Username = ClientName(s)
        /\ inbox[s][i].msg.Message \in {EmptyBody, Body(s, 0)}}

\* the join broadcast of s has returned
JoinBroadcastDone(s) ==
    \/ pc[s] \in {"recv", "save"}
    \/ pc[s] \in {"snapshot", "send"} /\ local[s].recvd > 1

\* C21: a stream is registered before its join message is broadcast, so it
\* receives its own join message exactly once, by live broadcast and not by
\* replay, provided the send to it succeeds. Checked under Spec.
C21_OwnJoinOnce ==
    \A s \in Sessions :
        /\ pc[s] \in {"saveJoin", "snapshot", "send"} => InRegistry(clients, s)
        /\ Cardinality(OwnJoin(s)) <= 1
        /\ \A i \in OwnJoin(s) : inbox[s][i].via = "live"
        /\ (JoinBroadcastDone(s) /\ conn[s] = "open") => Cardinality(OwnJoin(s)) = 1

\* a stream has received history and then its own join message
C21_Witness ==
    \E s \in Sessions :
        /\ pc[s] = "recv"
        /\ conn[s] = "open"
        /\ Len(inbox[s]) > 1
        /\ inbox[s][1].via = "history"
        /\ inbox[s][Len(inbox[s])] =
               [via |-> "live", msg |-> [Roomid |-> local[s].roomID,
                                         Username |-> ClientName(s), Message |-> Body(s, 0)]]

\* C22: a failure of SaveMessage or of the history load never closes the
\* session: after a failed load the joining handler goes on to register,
\* and after a failed save the handler, still registered and with no status
\* to return, broadcasts the frame and then waits for its next frame.
\* Checked under Spec.
C22_StorageFailureIsNotFatal ==
    [][\A s \in Sessions :
          /\ (pc[s] = "loadHistory" /\ pc'[s] # "loadHistory") =>
                 /\ pc'[s] \in {"replay", "register"}
                 /\ local'[s].ret = "none"
                 /\ (local'[s].history = <<>>) => pc'[s] = "register"
          /\ (pc[s] = "register" /\ pc'[s] # "register") =>
                 pc'[s] = "saveJoin" /\ InRegistry(clients', s)
          /\ (pc[s] \in {"saveJoin", "save"} /\ pc'[s] # pc[s] /\ messages' = messages) =>
                 /\ pc'[s] = "snapshot"
                 /\ local'[s].ret = "none"
                 /\ InRegistry(clients', s)
          /\ (pc[s] \in {"snapshot", "send"} /\ pc'[s] \notin {"snapshot", "send"}) =>
                 /\ pc'[s] = "recv"
                 /\ local'[s].ret = "none"
                 /\ InRegistry(clients', s)]_vars

\* a stream whose join message was broadcast and received although its
\* SaveMessage failed on a storage error is registered and at its next Recv
C22_Witness ==
    \E s \in Sessions :
        /\ pc[s] = "recv"
        /\ conn[s] = "open"
        /\ InRegistry(clients, s)
        /\ local[s].roomID = RoomAB
        /\ messages = <<>>
        /\ \E i \in 1..Len(inbox[s]) : inbox[s][i].msg.Message = Body(s, 0)

\* the row SaveMessage stores for the handshake frame of s
JoinRow(s) ==
    [room_id |-> local[s].roomID, sender_id |-> SenderID(local[s].userName),
     username |-> local[s].userName, message_content |-> local[s].msg.Message]

Places(cl, s) ==
    {p \in UNION {{<<r, i>> : i \in 1..Len(cl[r])} : r \in DOMAIN cl} : cl[p[1]][p[2]] = s}

\* C24: every stream appears in the registry at most once in total: in the
\* list of at most one room, the room of its handshake, and at most once in
\* that list. Checked under Spec.
C24_AtMostOnePlace ==
    \A s \in Sessions :
        /\ Cardinality(Places(clients, s)) <= 1
        /\ \A p \in Places(clients, s) : p[1] = local[s].roomID

\* the two streams are registered in different rooms
C24_Witness ==
    /\ Cardinality(DOMAIN clients) = 2
    /\ \A s \in Sessions : Cardinality(Places(clients, s)) = 1

\* C25: a registered stream stays in the registry until its own handler
\* closes it or a broadcast evicts it after a failed send to it: no other
\* step removes it, and its handler runs the cleanup only after its Recv
\* has returned io.EOF or an error; there is no timeout. Checked under
\* SpecMem, whose broadcast evicts.
C25_IdleSessionKeepsItsSlot ==
    [][\A s \in Sessions :
          /\ (InRegistry(clients, s) /\ ~InRegistry(clients', s)) =>
                 \/ pc[s] = "cleanup" /\ pc'[s] = "closed"
                 \/ /\ conn[s] = "down"
                    /\ \E t \in Sessions :
                          /\ pc[t] = "evict"
                          /\ pc'[t] # "evict"
                          /\ \E i \in 1..Len(local[t].failedClients) :
                                 local[t].failedClients[i] = s
          /\ (pc[s] # "cleanup" /\ pc'[s] = "cleanup") => pc[s] = "recv"]_vars

\* a stream is registered, connected and waiting for a frame after the
\* other stream of its room was evicted
C25_Witness ==
    \E s \in Sessions : \E t \in Sessions \ {s} :
        /\ pc[s] = "recv"
        /\ conn[s] = "open"
        /\ InRegistry(clients, s)
        /\ local[t].registered
        /\ local[t].roomID = local[s].roomID
        /\ pc[t] # "closed"
        /\ ~InRegistry(clients, t)

\* C26: when the connection of a registered stream is closed, its handler
\* eventually returns and the stream is eventually absent from the
\* registry, under fair scheduling of the handlers. Checked under
\* SpecStall.
C26_ClosedConnectionClosesSession ==
    \A s \in Sessions :
        (local[s].registered /\ conn[s] = "down")
            ~> (pc[s] = "closed" /\ ~InRegistry(clients, s))

\* the positions of a handler whose handshake was accepted (Active)
ActivePositions ==
    {"loadHistory", "replay", "register", "saveJoin", "snapshot", "send", "recv", "save",
     "cleanup"}

\* a step keeps every handler moving forward, and saves or sends only on
\* behalf of a handler that is at a saving or a sending position
ForwardStep ==
    /\ \A s \in Sessions :
           /\ pc[s] # "handshake" => pc'[s] # "handshake"
           /\ pc[s] = "closed" => pc'[s] = "closed"
    /\ messages' # messages =>
           (\E t \in Sessions : pc[t] \in {"saveJoin", "save"} /\ pc'[t] = "snapshot")
    /\ (\E c \in Sessions : Len(inbox'[c]) > Len(inbox[c])) =>
           (\E u \in Sessions : pc[u] \in {"replay", "send"} /\ local'[u] # local[u])

\* C27: a session only moves forward through AwaitingHandshake, Active and
\* Closed: a handler never returns to its handshake, Closed is terminal (a
\* closed stream is never registered again and its handler saves and
\* broadcasts nothing more), and a message is saved or broadcast only by a
\* handler whose handshake frame was well-formed and named a known
\* identity. Checked under Spec.
C27_ForwardOnly ==
    /\ [](\A s \in Sessions :
            /\ pc[s] \in ActivePositions =>
                   /\ local[s].roomID # NoRoom
                   /\ local[s].userName # ""
                   /\ Known(local[s].userName)
            /\ pc[s] = "closed" => ~InRegistry(clients, s))
    /\ [][ForwardStep]_vars

\* a registered stream has been closed after its message was saved, while
\* the handler of the other stream is saving a frame
C27_Witness ==
    \E s \in Sessions : \E t \in Sessions \ {s} :
        /\ pc[s] = "closed"
        /\ local[s].registered
        /\ \E i \in 1..Len(messages) : messages[i].username = ClientName(s)
        /\ pc[t] = "save"

\* a step leaves the delivery set of every broadcast to its own loop: the
\* snapshot is taken as the streams registered in the room at that instant,
\* and afterwards only the sends of the broadcast itself shorten it
DeliverySetStep ==
    \A s \in Sessions :
        /\ (pc[s] = "snapshot" /\ pc'[s] # "snapshot") =>
               /\ Range(local'[s].snapshot) = JoinedIn(local[s].bRoom)
               /\ Len(local'[s].snapshot) = Cardinality(JoinedIn(local[s].bRoom))
               /\ s \in Range(local'[s].snapshot)
               /\ \A c \in Sessions :
                      (local[c].registered /\ local[c].roomID # local[s].bRoom) =>
                          c \notin Range(local'[s].snapshot)
        /\ (pc[s] = "send" /\ clients' # clients) => local'[s].snapshot = local[s].snapshot
        /\ (pc[s] = "send" /\ local'[s].snapshot # local[s].snapshot) =>
               /\ local'[s].snapshot = Tail(local[s].snapshot)
               /\ \A c \in Sessions \ {Head(local[s].snapshot)} : inbox'[c] = inbox[c]

\* C28: the delivery set of a broadcast is exactly the set of streams
\* registered in the room of the message at the instant of the snapshot,
\* the originator included and the streams of other rooms excluded; a
\* stream that registers or unregisters afterwards does not change the
\* delivery set of a broadcast already under way. Checked under Spec.
C28_DeliverySetIsSnapshot == [][DeliverySetStep]_vars

\* a broadcast is still to send to a stream that has left the registry
\* since the snapshot
C28_Witness ==
    \E s \in Sessions : \E c \in Sessions \ {s} :
        /\ pc[s] = "send"
        /\ c \in Range(local[s].snapshot)
        /\ pc[c] = "closed"
        /\ ~InRegistry(clients, c)

----------------------------------------------------------------------------
(* Claims about the lock of the registry                                    *)

\* the positions of a handler at which it mutates the registry
MutatingPositions == {"register", "evict", "cleanup"}

\* a step that writes the registry is the step of a handler that holds mu
\* for writing at a mutating position, and a step that reads it for a
\* snapshot is the step of a handler that holds mu
AccessUnderLock ==
    /\ clients' # clients =>
           (\E s \in mu.writers : pc[s] \in MutatingPositions /\ pc'[s] # pc[s])
    /\ \A s \in Sessions :
           /\ (pc[s] \in MutatingPositions /\ pc'[s] # pc[s]) => s \in mu.writers
           /\ (pc[s] = "snapshot" /\ pc'[s] # "snapshot") => s \in Holders(mu)

\* C29: every read or write of the registry happens under mu: at most one
\* handler is inside a registration, cleanup or eviction section at a
\* time, no caller is inside a snapshot or statistics section while a
\* handler is inside a mutating section, and a handler inside a section is
\* at the position of that section. Checked under SpecMemLock, whose
\* broadcast evicts.
C29_RegistryUnderLock ==
    /\ [](/\ Cardinality(mu.writers) <= 1
          /\ mu.writers # {} => mu.readers = {}
          /\ \A s \in mu.writers : pc[s] \in MutatingPositions
          /\ \A s \in mu.readers \cap Sessions : pc[s] = "snapshot")
    /\ [][AccessUnderLock]_vars

\* two handlers and the caller of GetRoomStats are inside read sections at
\* the same time, after an eviction
C29_Witness ==
    /\ mu.readers = Sessions \cup {StatsCaller}
    /\ \E r \in DOMAIN clients : Len(clients[r]) < Cardinality(JoinedIn(r))

----------------------------------------------------------------------------
(* Claims about the removal of a stream from the registry                   *)

\* this step is the deferred cleanup of the handler of s
CleanedUp(s) == pc[s] = "cleanup" /\ pc'[s] = "closed"

\* C30: the removal of a stream from the registry is idempotent: a cleanup
\* that runs for a stream that is no longer in the list of its room, after
\* its eviction, leaves the registry exactly as it was, and a second
\* removal after a cleanup gives the registry of the first. Checked under
\* SpecMem, whose broadcast evicts.
C30_UnregisterIsIdempotent ==
    [][\A s \in Sessions :
          CleanedUp(s) =>
              /\ ~InRegistry(clients, s) => clients' = clients
              /\ Unregistered(clients', local[s].roomID, s) = clients']_vars

----------------------------------------------------------------------------
(* Further claims about GetRoomID, checked under SpecRoomID                 *)

\* the unique identifier of a known identity is shorter than 3 characters
ShortUUID(id) == Known(id) /\ Len(users[id].id) < 3

\* C31: when the unique identifier of either identity passed to GetRoomID
\* is shorter than 3 characters, the call fails with Internal and creates
\* no room row.
C31_ShortIsInternal ==
    [][(resp'.code # "none" /\ (ShortUUID(resp'.my) \/ ShortUUID(resp'.other))) =>
           (resp'.code = "Internal" /\ rooms' = rooms)]_vars

\* C31, amended: when both identities are found by the gateway and the
\* unique identifier of either is shorter than 3 characters, the call
\* fails with Internal; when the other identity is empty, unknown or not
\* found because its lookup failed, the call fails with InvalidArgument or
\* NotFound; in each case no room row is created.
C31_ShortIsInternalWhenBothFound ==
    [][(resp'.code # "none" /\ (ShortUUID(resp'.my) \/ ShortUUID(resp'.other))) =>
           /\ rooms' = rooms
           /\ IF Known(resp'.my) /\ Known(resp'.other) /\ ~resp'.storageErr
              THEN resp'.code = "Internal"
              ELSE resp'.code \in {"InvalidArgument", "NotFound"}]_vars

\* a call on two known identities, the later-created of which has a short
\* identifier, has returned Internal while an earlier call created a room
C31_Witness ==
    /\ resp.code = "Internal"
    /\ ~resp.storageErr
    /\ Known(resp.my)
    /\ ShortUUID(resp.other)
    /\ users[resp.my].created < users[resp.other].created
    /\ rooms # {}

----------------------------------------------------------------------------
(* Claims about the frames of a session, checked under SpecOpen             *)

\* C32: every frame a handler saves is saved under the room its stream
\* registered in at the handshake, and every frame it broadcasts is
\* delivered only to streams registered in that room, whatever room
\* identifier the frame carries.
C32_OwnRoomOnly ==
    [][\A s \in Sessions :
          /\ (pc[s] \in {"saveJoin", "save"} /\ pc'[s] # pc[s] /\ messages' # messages) =>
                 messages'[Len(messages')].room_id = local[s].roomID
          /\ (BroadcastSent(s) /\ inbox' # inbox) =>
                 local[Head(local[s].snapshot)].roomID = local[s].roomID]_vars

----------------------------------------------------------------------------
(* Claims about the eviction of the in-memory server, checked under SpecMem *)

\* the key of room r and its list are the same before and after the step
RoomUntouched(r) ==
    /\ r \in DOMAIN clients <=> r \in DOMAIN clients'
    /\ ClientsOf(clients', r) = ClientsOf(clients, r)

WasEvicted(s) ==
    /\ local[s].registered
    /\ pc[s] \notin {"cleanup", "closed"}
    /\ ~InRegistry(clients, s)

\* C34: a stream evicted after a delivery failure is destroyed: from the
\* eviction on its handler takes no further frame from it and delivers no
\* frame received on it to any stream.
C34_EvictedIsSilent ==
    [][\A s \in Sessions :
          WasEvicted(s) =>
              /\ local'[s].recvd = local[s].recvd
              /\ BroadcastSent(s) => inbox' = inbox]_vars

----------------------------------------------------------------------------
(* Claims about what the repository-backed server saves and delivers        *)

\* C35: every message delivered to a stream by a live broadcast is a row
\* of the persisted messages: no message is broadcast whose SaveMessage
\* failed. Checked under Spec.
C35_DeliveredIsPersisted ==
    \A c \in Sessions : \A i \in 1..Len(inbox[c]) :
        inbox[c][i].via = "live" =>
            \E j \in 1..Len(messages) : HistoryMsg(messages[j]) = inbox[c][i].msg

\* the handler of t has saved row and has not finished its broadcast
BroadcastPending(t, row) ==
    pc[t] \in {"snapshot", "send"} /\ local[t].msg = HistoryMsg(row)

\* stream s holds row, by replay or by live broadcast
Holds(s, row) == \E i \in 1..Len(inbox[s]) : inbox[s][i].msg = HistoryMsg(row)

\* C36: no message is lost to a joining stream between its history load
\* and its registration: a registered stream whose sends all succeeded
\* holds every message that another stream has persisted in its room and
\* finished broadcasting, by replay or by live broadcast (stated for a
\* stream whose history load succeeded and returned records). Checked
\* under Spec.
C36_NoLossAcrossJoin ==
    \A s \in Sessions : \A t \in Sessions \ {s} :
        (/\ local[s].registered
         /\ pc[s] \notin {"cleanup", "closed"}
         /\ conn[s] = "open"
         /\ \E i \in 1..Len(inbox[s]) : inbox[s][i].via = "history") =>
            \A j \in 1..Len(messages) :
                (/\ messages[j].room_id = local[s].roomID
                 /\ messages[j].username = ClientName(t)
                 /\ ~BroadcastPending(t, messages[j])) => Holds(s, messages[j])

\* C37: a broadcast never attempts a send to a stream that has already been
\* unregistered: every send of the loop of broadcastMessage targets a
\* stream that is in the registry at the moment of the send. Checked under
\* Spec.
C37_SendsOnlyToRegistered ==
    [][\A s \in Sessions :
          BroadcastSent(s) => InRegistry(clients, Head(local[s].snapshot))]_vars

\* the participants the persisted row of room r records
Participants(r) == {row.user1_id : row \in {x \in rooms : x.room_id = r}} \cup
                   {row.user2_id : row \in {x \in rooms : x.room_id = r}}

\* C38: a stream is registered in a room only if its participant is one of
\* the two participants the persisted row of that room records: JoinChat
\* never attaches a user to a room that has no row or that belongs to two
\* other identities. Checked under Spec.
C38_RegisteredIsParticipant ==
    \A s \in Sessions :
        InRegistry(clients, s) => local[s].userName \in Participants(local[s].roomID)

\* C39: every message saved or broadcast on behalf of a stream carries the
\* username the stream presented, and UserExists confirmed, at its
\* handshake: the sender identity and the username of a persisted row
\* denote the same participant. Checked under SpecOpen.
C39_NameOfTheHandshake ==
    /\ [](\A j \in 1..Len(messages) :
            messages[j].sender_id = SenderID(messages[j].username))
    /\ [][\A s \in Sessions :
            BroadcastSent(s) => local[s].msg.Username = local[s].userName]_vars

\* C40: a handshake is rejected with Unauthenticated only when the gateway
\* reports that the participant does not exist: a handshake that names an
\* existing participant is not closed as Unauthenticated, also when the
\* UserExists call fails with a storage error. Checked under Spec.
C40_StorageErrorIsNotUnauthenticated ==
    [][\A s \in Sessions : \A f \in HandshakeFrames(s), dbOk \in BOOLEAN :
          (HandshakeOn(s, f, dbOk) /\ ~InvalidFrame(f) /\ Known(f.Username)) =>
              local'[s].ret # "Unauthenticated"]_vars

====
